---------------------------- MODULE Spec2Model ----------------------------
(***************************************************************************)
(* logalizer (src/main.rs): one pass over the lines of a log file.  Each   *)
(* line is decoded as a JSON record with a string field "type"; decoded    *)
(* lines are folded into a per-type table (instances, total byte size),    *)
(* lines that fail to decode are pushed to an exclusion list, and main     *)
(* prints the table, the exclusion listing and a completion message.       *)
(*                                                                         *)
(* A line is a sequence of JSON tokens; every token carries its text as a  *)
(* sequence of characters, so that the byte length of the raw line         *)
(* (String::len) and the decoded type key are both computed from the same  *)
(* text.  A line is what BufRead::lines yields: its terminator is not part *)
(* of it.  Standard output is assumed writable.  The elapsed time printed  *)
(* by the completion message is not modelled as a value.                   *)
(***************************************************************************)
EXTENDS Integers, Sequences, FiniteSets, TLC

\* Bounds of the model.
MaxLines == 3
MaxRuns == 2

---------------------------------------------------------------------------
\* Text: characters, tokens, lines.

\* UTF-8 width of a character: String::len counts bytes, not characters.
Utf8Width(c) == IF c = "U+00E9" THEN 2 ELSE 1

RECURSIVE Utf8Len(_)
Utf8Len(s) == IF s = <<>> THEN 0 ELSE Utf8Width(Head(s)) + Utf8Len(Tail(s))

Punct(c) == [k |-> c, s |-> <<c>>]
Str(s) == [k |-> "str", s |-> s]
Num(s) == [k |-> "num", s |-> s]
Word(s) == [k |-> "word", s |-> s]
Ws == [k |-> "ws", s |-> <<" ">>]

\* Bytes a token takes in the raw line: a string has its two quotes.
TokenBytes(t) == IF t.k = "str" THEN 2 + Utf8Len(t.s) ELSE Utf8Len(t.s)

\* line.len(): the byte length of the whole raw line, terminator stripped.
RECURSIVE LineLen(_)
LineLen(line) ==
    IF line = <<>> THEN 0 ELSE TokenBytes(Head(line)) + LineLen(Tail(line))

TypeField == <<"t", "y", "p", "e">>

---------------------------------------------------------------------------
\* serde_json::from_str::<Log>: Ok(log_type) or Err(error text).

Ok(v) == [ok |-> TRUE, log_type |-> v, error |-> ""]
Err(e) == [ok |-> FALSE, log_type |-> <<>>, error |-> e]

SkipWs(line) == SelectSeq(line, LAMBDA t : t.k # "ws")

IsValue(t) == t.k \in {"str", "num"}

\* The object form: toks starts after a "{" or after a ",".  have says
\* whether the field "type" was already read, val is its value.
RECURSIVE VisitMap(_, _, _, _)
VisitMap(toks, first, have, val) ==
    IF toks = <<>> THEN Err("EOF while parsing an object")
    ELSE IF first /\ Head(toks).k = "}" THEN
        IF Len(toks) > 1 THEN Err("trailing characters")
        ELSE IF have THEN Ok(val) ELSE Err("missing field type")
    ELSE IF Head(toks).k # "str" THEN Err("key must be a string")
    ELSE IF Len(toks) < 2 THEN Err("EOF while parsing an object")
    ELSE IF toks[2].k # ":" THEN Err("expected :")
    ELSE IF Len(toks) < 3 THEN Err("EOF while parsing a value")
    ELSE IF ~IsValue(toks[3]) THEN Err("expected value")
    ELSE IF Head(toks).s = TypeField /\ have THEN Err("duplicate field type")
    ELSE IF Head(toks).s = TypeField /\ toks[3].k # "str"
        THEN Err("invalid type, expected a string")
    ELSE LET have2 == have \/ Head(toks).s = TypeField
             val2 == IF Head(toks).s = TypeField THEN toks[3].s ELSE val
             rest == SubSeq(toks, 4, Len(toks))
         IN  IF rest = <<>> THEN Err("EOF while parsing an object")
             ELSE IF Head(rest).k = "}" THEN
                 IF Len(rest) > 1 THEN Err("trailing characters")
                 ELSE IF have2 THEN Ok(val2) ELSE Err("missing field type")
             ELSE IF Head(rest).k = "," THEN VisitMap(Tail(rest), FALSE, have2, val2)
             ELSE Err("expected , or }")

\* The array form a derived struct also accepts: ["A"] is Log {log_type: "A"}.
VisitSeq(toks) ==
    IF toks = <<>> THEN Err("EOF while parsing a list")
    ELSE IF Head(toks).k = "]" THEN Err("invalid length 0, expected struct Log")
    ELSE IF ~IsValue(Head(toks)) THEN Err("expected value")
    ELSE IF Head(toks).k # "str" THEN Err("invalid type, expected a string")
    ELSE IF Len(toks) < 2 THEN Err("EOF while parsing a list")
    ELSE IF toks[2].k # "]" THEN Err("trailing characters")
    ELSE IF Len(toks) > 2 THEN Err("trailing characters")
    ELSE Ok(Head(toks).s)

from_str(line) ==
    LET toks == SkipWs(line)
    IN  IF toks = <<>> THEN Err("EOF while parsing a value")
        ELSE IF Head(toks).k = "{" THEN VisitMap(Tail(toks), TRUE, FALSE, <<>>)
        ELSE IF Head(toks).k = "[" THEN VisitSeq(Tail(toks))
        ELSE IF IsValue(Head(toks)) THEN Err("invalid type, expected struct Log")
        ELSE Err("expected value")

---------------------------------------------------------------------------
\* The lines a file of the model is made of.

\* {"type":"A"}
LineA ==
    << Punct("{"), Str(TypeField), Punct(":"), Str(<<"A">>), Punct("}") >>
\* {"type": "A","n":"e-acute"}: same key, other fields, whitespace, 2-byte text
LineA2 ==
    << Punct("{"), Str(TypeField), Punct(":"), Ws, Str(<<"A">>), Punct(","),
       Str(<<"n">>), Punct(":"), Str(<<"U+00E9">>), Punct("}") >>
\* {"type":""}
LineEmptyType ==
    << Punct("{"), Str(TypeField), Punct(":"), Str(<<>>), Punct("}") >>
\* not json
LineNotJson == << Word(<<"n", "o", "t">>), Ws, Word(<<"j", "s", "o", "n">>) >>
\* {"notype":1}
LineNoType ==
    << Punct("{"), Str(<<"n", "o">> \o TypeField), Punct(":"), Num(<<"1">>),
       Punct("}") >>
\* {"type":1}
LineNumType ==
    << Punct("{"), Str(TypeField), Punct(":"), Num(<<"1">>), Punct("}") >>

Lines == {LineA, LineA2, LineEmptyType, LineNotJson, LineNoType, LineNumType}

\* What the line iterator yields: Ok(line), or an I/O error of the read.
ReadOk(line) == [ok |-> TRUE, line |-> line, error |-> ""]
ReadErr == [ok |-> FALSE, line |-> <<>>, error |-> "stream did not contain valid UTF-8"]
Items == {ReadOk(l) : l \in Lines} \cup {ReadErr}

SeqsUpTo(S, n) == UNION {[1..m -> S] : m \in 0..n}

\* The file at the path: missing (File::open fails), or its lines.
NoFile == [exists |-> FALSE, lines |-> <<>>]
Files == {NoFile} \cup {[exists |-> TRUE, lines |-> ls] : ls \in SeqsUpTo(Items, MaxLines)}

\* argv: the program's own path, then the positional argument if given.
\* argv[0] is a path with at least one component, as the system passes it.
ExePath == <<".", "target", "logalizer">>
InputPath == <<"logs", "in.log">>
ArgVectors == {<<ExePath>>, <<ExePath, InputPath>>}

---------------------------------------------------------------------------
\* Program state.

VARIABLES
    args,        \* env::args()
    file,        \* the file system at the input path
    pc,          \* where main is
    i,           \* lines the iterator has yielded so far (enumerate's next index)
    type_table,  \* the TypeTable from_file builds and main then owns
    ret,         \* what from_file returned: "none" (not yet), "Ok", or the error
    out,         \* standard output, one element per printed item
    j,           \* position of main's loop over lines_excluded
    run,         \* invocations of the program so far
    prev         \* what the previous invocation's from_file returned

vars == <<args, file, pc, i, type_table, ret, out, j, run, prev>>

EmptyMap == [k \in {} |-> 0]

\* A table that is not created anew: the one of the call before.
TypeTableStale == type_table

\* Self::default(): an empty map and an empty list.
TypeTableDefault == [types |-> EmptyMap, lines_excluded |-> <<>>]

\* A table whose entry is replaced on every occurrence of its key.
ClassifyOverwrites(types, key, n) ==
    [k \in DOMAIN types \cup {key} |->
        IF k = key THEN [num_instances |-> 1, total_byte_size |-> n]
        ELSE types[k]]

\* A table that counts a later occurrence but keeps the first line's size.
ClassifyKeepsFirstSize(types, key, n) ==
    IF key \in DOMAIN types
    THEN [types EXCEPT ![key] =
             [num_instances |-> @.num_instances + 1,
              total_byte_size |-> @.total_byte_size]]
    ELSE [k \in DOMAIN types \cup {key} |->
             IF k = key THEN [num_instances |-> 1, total_byte_size |-> n]
             ELSE types[k]]

\* Lines 51-64: the table after a decoded line of byte length n and type key.
Classify(types, key, n) ==
    IF key \in DOMAIN types
    THEN [types EXCEPT ![key] =
             [num_instances |-> @.num_instances + 1,
              total_byte_size |-> @.total_byte_size + n]]
    ELSE [k \in DOMAIN types \cup {key} |->
             IF k = key THEN [num_instances |-> 1, total_byte_size |-> n]
             ELSE types[k]]

\* A record that holds the 1-based line number.
ExcludedLineOneBased(idx, error) == [index |-> idx + 1, error |-> error]

\* Lines 66-69: the record pushed for line idx that failed with error.
ExcludedLine(idx, error) == [index |-> idx, error |-> error]

\* A closure that drops a line that fails to decode.
ProcessLineDropsFailures(tt, idx, line) ==
    LET log == from_str(line)
    IN  IF log.ok
        THEN [tt EXCEPT !.types = Classify(tt.types, log.log_type, LineLen(line))]
        ELSE tt

\* A closure that adds the length of the type value, not of the line.
ProcessLineCountsValue(tt, idx, line) ==
    LET log == from_str(line)
    IN  IF log.ok
        THEN [tt EXCEPT !.types =
                 Classify(tt.types, log.log_type, Utf8Len(log.log_type))]
        ELSE [tt EXCEPT !.lines_excluded =
                 Append(tt.lines_excluded, ExcludedLine(idx, log.error))]

\* Lines 50-70: the closure's effect on the table for line idx.
ProcessLine(tt, idx, line) ==
    LET log == from_str(line)
    IN  IF log.ok
        THEN [tt EXCEPT !.types = Classify(tt.types, log.log_type, LineLen(line))]
        ELSE [tt EXCEPT !.lines_excluded =
                 Append(tt.lines_excluded, ExcludedLine(idx, log.error))]

\* The 0-based index printed as it is stored.
LineNumberZeroBased(index) == index

\* Line 93: the line number printed for an excluded line.
LineNumber(index) == index + 1

\* The first component of argv[0].
ExeNameFirst(path) == path[1]

\* Line 106: the last component of argv[0].
ExeName(path) == path[Len(path)]

\* The orders in which iterating a HashMap may visit its keys.
Orders(S) ==
    {f \in [1..Cardinality(S) -> S] : \A a, b \in 1..Cardinality(S) : f[a] = f[b] => a = b}

NoResult == [ret |-> "none", type_table |-> [types |-> EmptyMap, lines_excluded |-> <<>>]]

Init ==
    /\ args \in ArgVectors
    /\ file \in Files
    /\ pc = "main"
    /\ i = 0
    /\ type_table = [types |-> EmptyMap, lines_excluded |-> <<>>]
    /\ ret = "none"
    /\ out = <<>>
    /\ j = 0
    /\ run = 1
    /\ prev = NoResult

\* Lines 84-85, 105-111: no positional argument.
Usage ==
    /\ pc = "main"
    /\ Len(args) < 2
    /\ out' = Append(out, [kind |-> "usage", exe_name |-> ExeName(args[1])])
    /\ pc' = "exit"
    /\ UNCHANGED <<args, file, i, type_table, ret, j, run, prev>>

\* Lines 86, 38: File::open fails and from_file returns the error.
OpenFails ==
    /\ pc = "main"
    /\ Len(args) >= 2
    /\ ~file.exists
    /\ ret' = "No such file or directory"
    /\ pc' = "returned"
    /\ UNCHANGED <<args, file, i, type_table, out, j, run, prev>>

\* Lines 86, 38-42: the file opens; the table starts as the default.
Open ==
    /\ pc = "main"
    /\ Len(args) >= 2
    /\ file.exists
    /\ type_table' = TypeTableDefault
    /\ i' = 0
    /\ pc' = "from_file"
    /\ UNCHANGED <<args, file, ret, out, j, run, prev>>

\* A pass that skips a line it cannot read.
ReadFailsSkips ==
    /\ pc = "from_file"
    /\ i < Len(file.lines)
    /\ ~file.lines[i + 1].ok
    /\ i' = i + 1
    /\ UNCHANGED <<args, file, pc, type_table, ret, out, j, run, prev>>

\* Lines 47-48, 73: the read of line i fails; try_for_each stops, from_file
\* returns the error and its table is dropped.
ReadFails ==
    /\ pc = "from_file"
    /\ i < Len(file.lines)
    /\ ~file.lines[i + 1].ok
    /\ ret' = file.lines[i + 1].error
    /\ pc' = "returned"
    /\ UNCHANGED <<args, file, i, type_table, out, j, run, prev>>

\* A pass that returns the decode error of a line, as it does a read error.
NextLineStrict ==
    /\ pc = "from_file"
    /\ i < Len(file.lines)
    /\ file.lines[i + 1].ok
    /\ IF from_str(file.lines[i + 1].line).ok
       THEN /\ type_table' = ProcessLine(type_table, i, file.lines[i + 1].line)
            /\ i' = i + 1
            /\ UNCHANGED <<pc, ret>>
       ELSE /\ ret' = from_str(file.lines[i + 1].line).error
            /\ pc' = "returned"
            /\ UNCHANGED <<i, type_table>>
    /\ UNCHANGED <<args, file, out, j, run, prev>>

\* Lines 47-72: line i is read and classified or excluded.
NextLine ==
    /\ pc = "from_file"
    /\ i < Len(file.lines)
    /\ file.lines[i + 1].ok
    /\ type_table' = ProcessLine(type_table, i, file.lines[i + 1].line)
    /\ i' = i + 1
    /\ UNCHANGED <<args, file, pc, ret, out, j, run, prev>>

\* Lines 73-75: the iterator is exhausted; from_file returns Ok(type_table).
Exhausted ==
    /\ pc = "from_file"
    /\ i = Len(file.lines)
    /\ ret' = "Ok"
    /\ pc' = "returned"
    /\ UNCHANGED <<args, file, i, type_table, out, j, run, prev>>

\* Line 103: the Err arm.
ReportError ==
    /\ pc = "returned"
    /\ ret # "Ok"
    /\ out' = Append(out, [kind |-> "file_error", path |-> args[2], cause |-> ret])
    /\ pc' = "exit"
    /\ UNCHANGED <<args, file, i, type_table, ret, j, run, prev>>

\* Lines 88, 115-141: one row per entry, in the map's iteration order.
RenderTable ==
    /\ pc = "returned"
    /\ ret = "Ok"
    /\ \E order \in Orders(DOMAIN type_table.types) :
           out' = Append(out,
               [kind |-> "table",
                rows |-> [r \in DOMAIN order |->
                    [type_name |-> order[r],
                     num_instances |-> type_table.types[order[r]].num_instances,
                     total_byte_size |-> type_table.types[order[r]].total_byte_size]]])
    /\ pc' = "rendered"
    /\ UNCHANGED <<args, file, i, type_table, ret, j, run, prev>>

\* Lines 90-91: the header of the exclusion listing.
ExcludedHeader ==
    /\ pc = "rendered"
    /\ type_table.lines_excluded # <<>>
    /\ out' = Append(out, [kind |-> "excluded_header"])
    /\ j' = 0
    /\ pc' = "listing"
    /\ UNCHANGED <<args, file, i, type_table, ret, run, prev>>

\* Lines 92-94: one entry of the listing.
ExcludedEntry ==
    /\ pc = "listing"
    /\ j < Len(type_table.lines_excluded)
    /\ out' = Append(out,
           [kind |-> "excluded",
            line |-> LineNumber(type_table.lines_excluded[j + 1].index),
            error |-> type_table.lines_excluded[j + 1].error])
    /\ j' = j + 1
    /\ UNCHANGED <<args, file, pc, i, type_table, ret, run, prev>>

\* Lines 97-101: the completion message.
Completion ==
    /\ \/ pc = "rendered" /\ type_table.lines_excluded = <<>>
       \/ pc = "listing" /\ j = Len(type_table.lines_excluded)
    /\ out' = Append(out, [kind |-> "completed"])
    /\ pc' = "exit"
    /\ UNCHANGED <<args, file, i, type_table, ret, j, run, prev>>

\* The program is invoked again with the same arguments on the unchanged
\* file.  No table exists until from_file creates one (Open): until then
\* type_table holds what is left of the invocation before and is not read.
Rerun ==
    /\ pc = "exit"
    /\ run < MaxRuns
    /\ prev' = [ret |-> ret, type_table |-> type_table]
    /\ run' = run + 1
    /\ pc' = "main"
    /\ i' = 0
    /\ ret' = "none"
    /\ out' = <<>>
    /\ j' = 0
    /\ UNCHANGED <<args, file, type_table>>

Next ==
    \/ Usage
    \/ OpenFails
    \/ Open
    \/ ReadFails
    \/ NextLine
    \/ Exhausted
    \/ ReportError
    \/ RenderTable
    \/ ExcludedHeader
    \/ ExcludedEntry
    \/ Completion
    \/ Rerun

Spec == Init /\ [][Next]_vars

---------------------------------------------------------------------------
\* What the claims are stated over: the lines read so far, counted from the
\* file itself.

\* type_table is the table of the running or the completed pass.
Built == pc = "from_file" \/ ret = "Ok"

\* The decoding of the line at 0-based index idx.
DecodedAt(idx) == from_str(file.lines[idx + 1].line)

\* The 0-based indices below n whose line decodes to type key.
LinesOfType(key, n) ==
    {idx \in 0..(n - 1) : DecodedAt(idx).ok /\ DecodedAt(idx).log_type = key}

\* The type keys of the lines below n that decode.
KeysBelow(n) ==
    {DecodedAt(idx).log_type : idx \in {x \in 0..(n - 1) : DecodedAt(x).ok}}

RECURSIVE SumLineLen(_)
SumLineLen(S) ==
    IF S = {} THEN 0
    ELSE LET idx == CHOOSE x \in S : TRUE
         IN  LineLen(file.lines[idx + 1].line) + SumLineLen(S \ {idx})

RECURSIVE SumInstances(_, _)
SumInstances(types, S) ==
    IF S = {} THEN 0
    ELSE LET k == CHOOSE x \in S : TRUE
         IN  types[k].num_instances + SumInstances(types, S \ {k})

\* The positions of lines_excluded that record index idx.
ExcludedAt(idx) ==
    {p \in DOMAIN type_table.lines_excluded : type_table.lines_excluded[p].index = idx}

---------------------------------------------------------------------------
\* C1: during and after the pass over readable lines, every line index read
\* so far is accounted for exactly once: it is recorded by at most one
\* ExcludedLine, no ExcludedLine records any other index, and the lines not
\* excluded are exactly as many as the instances counted, so that the sum of
\* all num_instances plus the length of lines_excluded is the number of
\* lines read (N when from_file has returned Ok).
C1_EveryLineAccountedOnce ==
    Built =>
        /\ \A idx \in 0..(i - 1) : Cardinality(ExcludedAt(idx)) <= 1
        /\ \A p \in DOMAIN type_table.lines_excluded :
               type_table.lines_excluded[p].index \in 0..(i - 1)
        /\ \A idx \in 0..(i - 1) :
               (ExcludedAt(idx) = {}) <=> (\E key \in DOMAIN type_table.types :
                                             idx \in LinesOfType(key, i))
        /\ SumInstances(type_table.types, DOMAIN type_table.types)
               + Len(type_table.lines_excluded) = i
        /\ (ret = "Ok" => i = Len(file.lines))

\* A completed pass over three lines of which some were counted and some
\* were excluded.
C1_Witness ==
    /\ ret = "Ok"
    /\ i = 3
    /\ Len(type_table.lines_excluded) = 1
    /\ SumInstances(type_table.types, DOMAIN type_table.types) = 2

\* C2: for every type key, num_instances is exactly the number of lines read
\* that decode to that key; a key is in the map if and only if some line
\* read decodes to it; the empty string is a key like any other.
C2_InstanceCountExact ==
    Built =>
        /\ DOMAIN type_table.types = KeysBelow(i)
        /\ \A key \in DOMAIN type_table.types :
               type_table.types[key].num_instances = Cardinality(LinesOfType(key, i))
        /\ \A key \in {<<>>, <<"A">>} :
               key \in DOMAIN type_table.types <=> LinesOfType(key, i) # {}

\* A completed pass in which the key "A" occurred twice and the empty key
\* once.
C2_Witness ==
    /\ ret = "Ok"
    /\ DOMAIN type_table.types = {<<>>, <<"A">>}
    /\ type_table.types[<<"A">>].num_instances = 2
    /\ type_table.types[<<>>].num_instances = 1

\* C3: for every type key, total_byte_size is the sum of the byte lengths of
\* the whole raw lines classified under the key; lines that failed to decode
\* add to no total.
C3_ByteSizeExact ==
    Built =>
        /\ \A key \in DOMAIN type_table.types :
               type_table.types[key].total_byte_size = SumLineLen(LinesOfType(key, i))
        /\ \A key \in KeysBelow(i) : key \in DOMAIN type_table.types

\* A completed pass in which two lines of different lengths (12 and 22
\* bytes) were classified under "A" and one line failed to decode.
C3_Witness ==
    /\ ret = "Ok"
    /\ <<"A">> \in DOMAIN type_table.types
    /\ type_table.types[<<"A">>].num_instances = 2
    /\ type_table.types[<<"A">>].total_byte_size = 34
    /\ Len(type_table.lines_excluded) = 1

\* C4: in every state during and after the pass, lines_excluded is in input
\* order (indices non-decreasing along the list), and every recorded index
\* is the 0-based position of a line read that fails to decode, recorded
\* with that line's error.
C4_ExcludedInInputOrder ==
    Built =>
        /\ \A p, q \in DOMAIN type_table.lines_excluded :
               p < q => type_table.lines_excluded[p].index
                            <= type_table.lines_excluded[q].index
        /\ \A p \in DOMAIN type_table.lines_excluded :
               LET e == type_table.lines_excluded[p]
               IN  /\ e.index \in 0..(i - 1)
                   /\ ~DecodedAt(e.index).ok
                   /\ e.error = DecodedAt(e.index).error

\* Two failing lines with a decoded line between them: indices 0 and 2.
C4_Witness ==
    /\ Built
    /\ Len(type_table.lines_excluded) = 2
    /\ type_table.lines_excluded[1].index = 0
    /\ type_table.lines_excluded[2].index = 2

\* The first 0-based index whose read fails, or the number of lines.
FirstUnreadable ==
    IF \E k \in DOMAIN file.lines : ~file.lines[k].ok
    THEN (CHOOSE k \in DOMAIN file.lines :
              /\ ~file.lines[k].ok
              /\ \A m \in 1..(k - 1) : file.lines[m].ok) - 1
    ELSE Len(file.lines)

OutKinds == {out[p].kind : p \in DOMAIN out}

\* The step that takes a line that is read but fails to decode leaves the
\* types map unchanged, pushes one ExcludedLine with the line's index and
\* error, and stays in the pass with the next line to read.
C5_DecodeFailureStep ==
    (pc = "from_file" /\ i < Len(file.lines) /\ file.lines[i + 1].ok
        /\ ~DecodedAt(i).ok)
    => /\ type_table'.types = type_table.types
       /\ type_table'.lines_excluded =
              Append(type_table.lines_excluded,
                     [index |-> i, error |-> DecodedAt(i).error])
       /\ i' = i + 1
       /\ pc' = "from_file"
       /\ ret' = "none"

\* from_file returns an error only when the file cannot be opened or a read
\* fails, and returns Ok only with every line read; over a file whose lines
\* are all readable it returns Ok.
C5_OnlyIoFails ==
    /\ ret \notin {"none", "Ok"} =>
           \/ ~file.exists
           \/ i < Len(file.lines) /\ ~file.lines[i + 1].ok
    /\ ret = "Ok" => i = Len(file.lines)
    /\ (file.exists /\ FirstUnreadable = Len(file.lines) /\ pc = "returned")
           => ret = "Ok"

\* C5: a per-line decode failure is never a failure of from_file: every step
\* that takes such a line records it, leaves the types map alone and goes on
\* with the pass, and in every state an error return comes from an open or a
\* read that failed, an Ok return from a pass that read every line.
C5_DecodeFailureNotFatal == [][C5_DecodeFailureStep]_vars /\ []C5_OnlyIoFails

\* from_file returned Ok over {"notype":1}, then a malformed line, then a
\* line of type "A": the two failures were recorded and the last line was
\* still counted.
C5_Witness ==
    /\ ret = "Ok"
    /\ pc = "returned"
    /\ Len(file.lines) = 3
    /\ file.lines[1].line = LineNoType
    /\ file.lines[2].line = LineNotJson
    /\ file.lines[3].line = LineA
    /\ Len(type_table.lines_excluded) = 2
    /\ DOMAIN type_table.types = {<<"A">>}

\* C6: if the file cannot be opened, or the read of line k fails, from_file
\* returns the error and no table: no line after k is read, and main prints
\* the error message with the path and the cause and nothing else (no table,
\* no exclusion listing, no completion message).
C6_IoErrorIsFatal ==
    /\ \A k \in 1..i : file.lines[k].ok
    /\ i <= FirstUnreadable
    /\ (Len(args) >= 2 /\ (~file.exists \/ FirstUnreadable < Len(file.lines))) =>
           /\ ret # "Ok"
           /\ pc \notin {"rendered", "listing"}
           /\ pc \in {"main", "from_file", "returned"} => out = <<>>
           /\ pc = "returned" =>
                  ret = (IF file.exists THEN "stream did not contain valid UTF-8"
                                        ELSE "No such file or directory")
           /\ pc = "exit" =>
                  out = << [kind |-> "file_error", path |-> <<"logs", "in.log">>,
                            cause |-> IF file.exists
                                      THEN "stream did not contain valid UTF-8"
                                      ELSE "No such file or directory"] >>

\* The read of the third line failed after two lines were aggregated, and
\* main has printed.
C6_Witness ==
    /\ pc = "exit"
    /\ file.exists
    /\ ret = "stream did not contain valid UTF-8"
    /\ i = 2
    /\ type_table.types # EmptyMap
    /\ type_table.lines_excluded # <<>>

\* C7: with no positional argument main prints the usage message, with the
\* program's own name, and finishes: from_file is not called, no file is
\* read, and no table, file-error message or completion message is printed.
C7_UsageOnly ==
    Len(args) < 2 =>
        /\ pc \in {"main", "exit"}
        /\ ret = "none"
        /\ i = 0
        /\ pc = "main" => out = <<>>
        /\ pc = "exit" => out = << [kind |-> "usage", exe_name |-> "logalizer"] >>

\* main finished without an argument while a file with lines exists.
C7_Witness ==
    /\ Len(args) < 2
    /\ pc = "exit"
    /\ file.exists
    /\ Len(file.lines) = 2
    /\ out # <<>>

\* C8: a later invocation on the unchanged file gives what the one before
\* gave: from_file returns the same Ok or the same error, and on Ok the same
\* type keys with the same num_instances and total_byte_size and the same
\* lines_excluded sequence.
C8_Idempotent ==
    (run >= 2 /\ ret # "none") =>
        /\ ret = prev.ret
        /\ ret = "Ok" =>
               /\ DOMAIN type_table.types = DOMAIN prev.type_table.types
               /\ \A key \in DOMAIN type_table.types :
                      type_table.types[key] = prev.type_table.types[key]
               /\ type_table.lines_excluded = prev.type_table.lines_excluded

\* The second invocation returned Ok over a file with decoded and failing
\* lines.
C8_Witness ==
    /\ run = 2
    /\ ret = "Ok"
    /\ prev.ret = "Ok"
    /\ Cardinality(DOMAIN type_table.types) = 2
    /\ type_table.lines_excluded # <<>>

---------------------------------------------------------------------------
\* The chunked aggregation: chunks of the line sequence aggregated on their
\* own and merged.

\* The fold of the closure over lines from 0-based index idx on.
RECURSIVE Fold(_, _, _)
Fold(tt, lines, idx) ==
    IF lines = <<>> THEN tt
    ELSE Fold(ProcessLine(tt, idx, Head(lines).line), Tail(lines), idx + 1)

\* The partial result of the chunk of lines from..(to - 1), with the
\* lines' indices in the whole file.
AggregateChunk(from, to) ==
    Fold([types |-> EmptyMap, lines_excluded |-> <<>>],
         SubSeq(file.lines, from + 1, to), from)

RECURSIVE InsertByIndex(_, _)
InsertByIndex(e, sorted) ==
    IF sorted = <<>> THEN <<e>>
    ELSE IF e.index < Head(sorted).index THEN <<e>> \o sorted
    ELSE <<Head(sorted)>> \o InsertByIndex(e, Tail(sorted))

RECURSIVE SortByIndex(_)
SortByIndex(list) ==
    IF list = <<>> THEN <<>>
    ELSE InsertByIndex(list[Len(list)], SortByIndex(SubSeq(list, 1, Len(list) - 1)))

\* The merge of two partial results: counters summed per shared key, the
\* exclusion lists concatenated and put in index order.
Merge(a, b) ==
    [types |->
        [k \in DOMAIN a.types \cup DOMAIN b.types |->
            IF k \in DOMAIN a.types /\ k \in DOMAIN b.types
            THEN [num_instances |-> a.types[k].num_instances + b.types[k].num_instances,
                  total_byte_size |->
                      a.types[k].total_byte_size + b.types[k].total_byte_size]
            ELSE IF k \in DOMAIN a.types THEN a.types[k] ELSE b.types[k]],
     lines_excluded |-> SortByIndex(a.lines_excluded \o b.lines_excluded)]

\* The end of the chunk that starts at from, for cuts between the lines.
ChunkEnd(from, cuts) ==
    IF \E c \in cuts : c > from
    THEN CHOOSE c \in cuts : c > from /\ \A d \in cuts : d > from => c <= d
    ELSE Len(file.lines)

\* The chunks from index from on, merged; backwards says that a later chunk
\* is merged before an earlier one.
RECURSIVE MergedChunks(_, _, _)
MergedChunks(from, cuts, backwards) ==
    LET to == ChunkEnd(from, cuts)
    IN  IF to = Len(file.lines) THEN AggregateChunk(from, to)
        ELSE IF backwards
             THEN Merge(MergedChunks(to, cuts, backwards), AggregateChunk(from, to))
             ELSE Merge(AggregateChunk(from, to), MergedChunks(to, cuts, backwards))

\* C9: for every split of the line sequence into contiguous chunks,
\* aggregating each chunk on its own (with the lines' global indices) and
\* merging, in either order of the chunks, gives the types map and the
\* lines_excluded sequence of the single pass.
C9_ChunkedEquivalent ==
    ret = "Ok" =>
        \A cuts \in SUBSET (1..(Len(file.lines) - 1)) :
            \A backwards \in BOOLEAN :
                LET m == MergedChunks(0, cuts, backwards)
                IN  /\ DOMAIN m.types = DOMAIN type_table.types
                    /\ \A key \in DOMAIN m.types : m.types[key] = type_table.types[key]
                    /\ m.lines_excluded = type_table.lines_excluded

\* A completed pass over three lines in which the key "A" occurs on both
\* sides of a failing line, so that some split puts it in two chunks.
C9_Witness ==
    /\ ret = "Ok"
    /\ Len(file.lines) = 3
    /\ Len(type_table.lines_excluded) = 1
    /\ type_table.lines_excluded[1].index = 1
    /\ DOMAIN type_table.types = {<<"A">>}
    /\ type_table.types[<<"A">>].total_byte_size = 34

---------------------------------------------------------------------------
\* The place of a printed item in a successful run's output.
Rank(kind) ==
    CASE kind = "table" -> 1
      [] kind = "excluded_header" -> 2
      [] kind = "excluded" -> 3
      [] kind = "completed" -> 4
      [] OTHER -> 0

\* C10: on a successful run the output is, in this order, the table with one
\* row per distinct type key, then only if lines_excluded is not empty the
\* header and one entry per ExcludedLine in stored order with the 1-based
\* line number and the error, then the completion message.
C10_OutputOrder ==
    ret = "Ok" =>
        /\ \A p, q \in DOMAIN out : p < q => Rank(out[p].kind) <= Rank(out[q].kind)
        /\ \A p \in DOMAIN out : Rank(out[p].kind) > 0
        /\ \A p, q \in DOMAIN out :
               (out[p].kind = out[q].kind /\ out[p].kind # "excluded") => p = q
        /\ pc \in {"rendered", "listing", "exit"} =>
               /\ out[1].kind = "table"
               /\ Len(out[1].rows) = Cardinality(DOMAIN type_table.types)
               /\ {out[1].rows[r].type_name : r \in DOMAIN out[1].rows}
                      = DOMAIN type_table.types
               /\ \A r \in DOMAIN out[1].rows :
                      /\ out[1].rows[r].num_instances
                             = type_table.types[out[1].rows[r].type_name].num_instances
                      /\ out[1].rows[r].total_byte_size
                             = type_table.types[out[1].rows[r].type_name].total_byte_size
        /\ pc = "exit" =>
               IF type_table.lines_excluded = <<>>
               THEN /\ Len(out) = 2
                    /\ out[2].kind = "completed"
               ELSE /\ Len(out) = Len(type_table.lines_excluded) + 3
                    /\ out[2].kind = "excluded_header"
                    /\ \A p \in DOMAIN type_table.lines_excluded :
                           out[p + 2] =
                               [kind |-> "excluded",
                                line |-> type_table.lines_excluded[p].index + 1,
                                error |-> type_table.lines_excluded[p].error]
                    /\ out[Len(out)].kind = "completed"

\* A finished run that printed a table of two rows, the listing of the
\* one excluded line, the second of the file, and the completion message.
C10_Witness ==
    /\ pc = "exit"
    /\ ret = "Ok"
    /\ Len(out) = 4
    /\ Len(out[1].rows) = 2
    /\ out[3].kind = "excluded"
    /\ out[3].line = 2

===========================================================================
